---- MODULE Spec2Model ----
(***************************************************************************)
(* Lead-qualification pipeline (lambda_function_final.py / final.py):      *)
(* the deduction scoring engine score_lead_deduction, the sales note       *)
(* generator make_sales_note, and the Python value semantics they rely on. *)
(***************************************************************************)
EXTENDS Integers, Sequences, FiniteSets, TLC

(***************************************************************************)
(* Python values.  A value is a tagged record:                             *)
(*   [t |-> "none"]                       None                             *)
(*   [t |-> "bool",  b |-> BOOLEAN]       True / False                     *)
(*   [t |-> "int",   n |-> Int]           int                              *)
(*   [t |-> "float", k |-> kind, m |-> Int]                                *)
(*        kind "fin": a finite float, m its value in thousandths           *)
(*        truncated toward zero (exact for `x < 0.5` and for int(x));      *)
(*        kinds "nan", "inf", "ninf": the IEEE specials json.loads yields  *)
(*   [t |-> "str",   s |-> STRING]        str                              *)
(*   [t |-> "list",  items |-> Seq(STRING)]  a list of strings             *)
(***************************************************************************)
None == [t |-> "none"]
PyBool(b) == [t |-> "bool", b |-> b]
PyInt(n) == [t |-> "int", n |-> n]
PyFloat(m) == [t |-> "float", k |-> "fin", m |-> m]
PyInf == [t |-> "float", k |-> "inf", m |-> 0]
PyNaN == [t |-> "float", k |-> "nan", m |-> 0]
PyStr(s) == [t |-> "str", s |-> s]
PyList(items) == [t |-> "list", items |-> items]

\* bool(x): Python truthiness, as used by `not x`, `x or d`, `if x`.
Truthy(x) ==
    CASE x.t = "none"  -> FALSE
      [] x.t = "bool"  -> x.b
      [] x.t = "int"   -> x.n # 0
      [] x.t = "float" -> ~(x.k = "fin" /\ x.m = 0)
      [] x.t = "str"   -> x.s # ""
      [] x.t = "list"  -> Len(x.items) > 0

\* `x or d`
PyOr(x, d) == IF Truthy(x) THEN x ELSE d

\* dict.get(k, default); a dict is a function whose DOMAIN is its key set.
DictGet(d, k, default) == IF k \in DOMAIN d THEN d[k] ELSE default

\* An operation either returns a value or raises an exception.
Ok(v) == [ok |-> TRUE, v |-> v]
Raise(e) == [ok |-> FALSE, exc |-> e]

(***************************************************************************)
(* Strings: characters, str.lower(), substring test, str.strip().          *)
(***************************************************************************)
UpperToLower ==
    [c \in {"A","B","C","D","E","F","G","H","I","J","K","L","M",
            "N","O","P","Q","R","S","T","U","V","W","X","Y","Z"} |->
        CASE c = "A" -> "a" [] c = "B" -> "b" [] c = "C" -> "c" [] c = "D" -> "d"
          [] c = "E" -> "e" [] c = "F" -> "f" [] c = "G" -> "g" [] c = "H" -> "h"
          [] c = "I" -> "i" [] c = "J" -> "j" [] c = "K" -> "k" [] c = "L" -> "l"
          [] c = "M" -> "m" [] c = "N" -> "n" [] c = "O" -> "o" [] c = "P" -> "p"
          [] c = "Q" -> "q" [] c = "R" -> "r" [] c = "S" -> "s" [] c = "T" -> "t"
          [] c = "U" -> "u" [] c = "V" -> "v" [] c = "W" -> "w" [] c = "X" -> "x"
          [] c = "Y" -> "y" [] c = "Z" -> "z"]

LowerChar(c) == IF c \in DOMAIN UpperToLower THEN UpperToLower[c] ELSE c

\* Every character lower-cased; the string is halved at each level.
RECURSIVE LowerStr(_)
LowerStr(s) ==
    IF s = "" THEN ""
    ELSE IF Len(s) = 1 THEN LowerChar(s)
    ELSE LowerStr(SubSeq(s, 1, Len(s) \div 2)) \o
         LowerStr(SubSeq(s, Len(s) \div 2 + 1, Len(s)))

\* x.lower(): defined on str only; any other type has no such attribute.
PyLower(x) == IF x.t = "str" THEN Ok(PyStr(LowerStr(x.s))) ELSE Raise("AttributeError")

\* `k in s` for two str operands: k occurs in s as a contiguous substring.
Contains(s, k) ==
    \E i \in 1..(Len(s) - Len(k) + 1) : SubSeq(s, i, i + Len(k) - 1) = k

\* The characters \s matches and str.strip() removes.
Whitespace == {" ", "\t", "\n"}

\* The string s has the string w at position i.
HasAt(s, i, w) == i + Len(w) - 1 <= Len(s) /\ SubSeq(s, i, i + Len(w) - 1) = w

RECURSIVE StripLeft(_)
StripLeft(s) ==
    IF s # "" /\ SubSeq(s, 1, 1) \in Whitespace THEN StripLeft(SubSeq(s, 2, Len(s)))
    ELSE s

RECURSIVE StripRight(_)
StripRight(s) ==
    IF s # "" /\ SubSeq(s, Len(s), Len(s)) \in Whitespace
    THEN StripRight(SubSeq(s, 1, Len(s) - 1))
    ELSE s

\* str.strip()
Strip(s) == StripLeft(StripRight(s))

(***************************************************************************)
(* Numeric conversions int(x), float(x) and the formatting str(x).         *)
(***************************************************************************)
DigitVal ==
    [c \in {"0","1","2","3","4","5","6","7","8","9"} |->
        CASE c = "0" -> 0 [] c = "1" -> 1 [] c = "2" -> 2 [] c = "3" -> 3
          [] c = "4" -> 4 [] c = "5" -> 5 [] c = "6" -> 6 [] c = "7" -> 7
          [] c = "8" -> 8 [] c = "9" -> 9]

DigitChar == [d \in 0..9 |-> CHOOSE c \in DOMAIN DigitVal : DigitVal[c] = d]

AllDigits(s) ==
    s # "" /\ \A i \in 1..Len(s) : SubSeq(s, i, i) \in DOMAIN DigitVal

RECURSIVE DigitsValue(_)
DigitsValue(s) ==
    IF s = "" THEN 0
    ELSE DigitsValue(SubSeq(s, 1, Len(s) - 1)) * 10 + DigitVal[SubSeq(s, Len(s), Len(s))]

\* Sign and magnitude part of a stripped numeric literal.
SignOf(s) == IF s # "" /\ SubSeq(s, 1, 1) = "-" THEN -1 ELSE 1
Unsigned(s) ==
    IF s # "" /\ SubSeq(s, 1, 1) \in {"-", "+"} THEN SubSeq(s, 2, Len(s)) ELSE s

\* int(x).  A str must be an optionally signed run of decimal digits
\* (surrounding blanks allowed); a float is truncated toward zero.
IntOf(x) ==
    CASE x.t = "bool"  -> Ok(IF x.b THEN 1 ELSE 0)
      [] x.t = "int"   -> Ok(x.n)
      [] x.t = "float" ->
            CASE x.k = "nan" -> Raise("ValueError")
              [] x.k \in {"inf", "ninf"} -> Raise("OverflowError")
              [] OTHER -> Ok(IF x.m >= 0 THEN x.m \div 1000 ELSE -((-x.m) \div 1000))
      [] x.t = "str"   ->
            LET body == Unsigned(Strip(x.s))
            IN  IF AllDigits(body)
                THEN Ok(SignOf(Strip(x.s)) * DigitsValue(body))
                ELSE Raise("ValueError")
      [] OTHER -> Raise("TypeError")

\* Position of the first "." in s, or 0.
DotPos(s) ==
    IF \E i \in 1..Len(s) : SubSeq(s, i, i) = "."
    THEN CHOOSE i \in 1..Len(s) :
            /\ SubSeq(s, i, i) = "."
            /\ \A j \in 1..(i - 1) : SubSeq(s, j, j) # "."
    ELSE 0

\* Thousandths denoted by the fractional digits f (first three, zero padded).
FracMilli(f) == DigitsValue(SubSeq(f \o "000", 1, 3))

\* float(x).  A str must be nan / inf / infinity or an optionally signed
\* decimal literal (exponent forms are outside the modelled inputs).
FloatOf(x) ==
    CASE x.t = "bool"  -> Ok(PyFloat(IF x.b THEN 1000 ELSE 0))
      [] x.t = "int"   -> Ok(PyFloat(x.n * 1000))
      [] x.t = "float" -> Ok(x)
      [] x.t = "str"   ->
            LET st   == LowerStr(Strip(x.s))
                sg   == SignOf(st)
                body == Unsigned(st)
                dot  == DotPos(body)
                ip   == IF dot = 0 THEN body ELSE SubSeq(body, 1, dot - 1)
                fp   == IF dot = 0 THEN "" ELSE SubSeq(body, dot + 1, Len(body))
            IN  CASE body = "nan" -> Ok(PyNaN)
                  [] body \in {"inf", "infinity"} ->
                        Ok([t |-> "float", k |-> IF sg = 1 THEN "inf" ELSE "ninf", m |-> 0])
                  [] /\ ip \o fp # ""
                     /\ (ip = "" \/ AllDigits(ip))
                     /\ (fp = "" \/ AllDigits(fp)) ->
                        Ok(PyFloat(sg * (DigitsValue(ip) * 1000 + FracMilli(fp))))
                  [] OTHER -> Raise("ValueError")
      [] OTHER -> Raise("TypeError")

\* `f < 0.5` for a float f (every comparison with nan is false).
LessThanHalf(f) ==
    CASE f.k = "fin"  -> f.m < 500
      [] f.k = "ninf" -> TRUE
      [] OTHER        -> FALSE

RECURSIVE NatToStr(_)
NatToStr(n) ==
    IF n < 10 THEN DigitChar[n] ELSE NatToStr(n \div 10) \o DigitChar[n % 10]

IntToStr(n) == IF n < 0 THEN "-" \o NatToStr(-n) ELSE NatToStr(n)

RECURSIVE StripZeros(_)
StripZeros(s) ==
    IF Len(s) > 1 /\ SubSeq(s, Len(s), Len(s)) = "0"
    THEN StripZeros(SubSeq(s, 1, Len(s) - 1)) ELSE s

RECURSIVE JoinQuoted(_)
JoinQuoted(items) ==
    IF Len(items) = 0 THEN ""
    ELSE "'" \o Head(items) \o "'" \o
         (IF Len(items) > 1 THEN ", " ELSE "") \o JoinQuoted(Tail(items))

\* str(x), as applied by an f-string replacement field.
StrOf(x) ==
    CASE x.t = "none"  -> "None"
      [] x.t = "bool"  -> IF x.b THEN "True" ELSE "False"
      [] x.t = "int"   -> IntToStr(x.n)
      [] x.t = "float" ->
            CASE x.k = "nan"  -> "nan"
              [] x.k = "inf"  -> "inf"
              [] x.k = "ninf" -> "-inf"
              [] OTHER ->
                    LET a == IF x.m < 0 THEN -x.m ELSE x.m
                        f == NatToStr(1000 + (a % 1000))
                    IN  (IF x.m < 0 THEN "-" ELSE "") \o NatToStr(a \div 1000)
                        \o "." \o StripZeros(SubSeq(f, 2, 4))
      [] x.t = "str"   -> x.s
      [] x.t = "list"  -> "[" \o JoinQuoted(x.items) \o "]"

(***************************************************************************)
(* score_lead_deduction(features): the deduction scoring engine.           *)
(* Each block of the function is an operator from the running score to     *)
(* Ok(new score) or Raise(exception); the function chains them in order.   *)
(***************************************************************************)
Min(a, b) == IF a < b THEN a ELSE b
Max(a, b) == IF a > b THEN a ELSE b

ideal_keywords == <<"food", "fish", "frozen", "pharma", "logistics", "3pl", "cold chain">>
ok_keywords == <<"manufactur", "bouw", "construction", "wholesale", "groothandel">>

\* any(k in s for k in keywords)
AnyIn(keywords, s) == \E i \in DOMAIN keywords : Contains(s, keywords[i])

\* Variant: the gate reads has_warehouse with default True.
Gate_default_true(features) ==
    ~Truthy(DictGet(features, "has_warehouse", PyBool(TRUE)))

\* `if not features.get("has_warehouse", False): return 0, "", False`
Gate(features) == ~Truthy(DictGet(features, "has_warehouse", PyBool(FALSE)))

\* 1. Warehouse type
wtype_step(features, score) ==
    LET wtype == PyLower(PyOr(DictGet(features, "warehouse_type", None), PyStr("unknown")))
    IN  IF ~wtype.ok THEN wtype
        ELSE CASE wtype.v.s = "freezer" -> Ok(score)
               [] wtype.v.s = "mixed"   -> Ok(score - 10)
               [] wtype.v.s = "ambient" -> Ok(score - 20)
               [] OTHER                 -> Ok(score - 30)

\* 2. Scale
scale_step(features, score) ==
    LET scale == PyLower(PyOr(DictGet(features, "approx_scale", None), PyStr("unknown")))
    IN  IF ~scale.ok THEN scale
        ELSE CASE scale.v.s = "large"  -> Ok(score)
               [] scale.v.s = "medium" -> Ok(score - 10)
               [] scale.v.s = "small"  -> Ok(score - 25)
               [] OTHER                -> Ok(score)

\* 3. Pallet capacity: int(pallets) under `except (ValueError, TypeError)`
pallets_coerce(features) ==
    LET raw == DictGet(features, "approx_pallet_capacity", None)
        cv  == IF raw.t # "none" THEN IntOf(raw) ELSE Ok(0)
    IN  IF ~cv.ok /\ cv.exc \in {"ValueError", "TypeError"} THEN Ok(0) ELSE cv

\* Variant: the 7000 bound of the middle band is exclusive.
pallets_step_exclusive(features, score) ==
    LET pallets == pallets_coerce(features)
    IN  IF ~pallets.ok THEN pallets
        ELSE CASE pallets.v > 30000 -> Ok(score)
               [] 7000 < pallets.v /\ pallets.v <= 30000 -> Ok(score - 5)
               [] 1 <= pallets.v /\ pallets.v <= 7000 -> Ok(score - 15)
               [] OTHER -> Ok(score - 25)

pallets_step(features, score) ==
    LET pallets == pallets_coerce(features)
    IN  IF ~pallets.ok THEN pallets
        ELSE CASE pallets.v > 30000 -> Ok(score)
               [] 7000 <= pallets.v /\ pallets.v <= 30000 -> Ok(score - 5)
               [] 1 <= pallets.v /\ pallets.v < 7000 -> Ok(score - 15)
               [] OTHER -> Ok(score - 25)

\* 4. Industry
industry_step(features, score) ==
    LET industry == PyLower(PyOr(DictGet(features, "industry", None), PyStr("")))
    IN  IF ~industry.ok THEN industry
        ELSE CASE AnyIn(ideal_keywords, industry.v.s) -> Ok(score)
               [] AnyIn(ok_keywords, industry.v.s)    -> Ok(score - 10)
               [] Truthy(industry.v)                  -> Ok(score - 40)
               [] OTHER                               -> Ok(score)

\* Variant: the public-sector deduction is 3.
public_step_by_three(features, score) ==
    IF Truthy(DictGet(features, "is_public_sector", None)) THEN Ok(score - 3) ELSE Ok(score)

\* 5. Public sector
public_step(features, score) ==
    IF Truthy(DictGet(features, "is_public_sector", None)) THEN Ok(score - 5) ELSE Ok(score)

\* Variant: the safety deduction is waived for a freezer warehouse.
safety_step_unless_freezer(features, score) ==
    IF /\ ~Truthy(DictGet(features, "safety_focus", PyBool(FALSE)))
       /\ DictGet(features, "warehouse_type", None) # PyStr("freezer")
    THEN Ok(score - 10) ELSE Ok(score)

\* 6. Safety / compliance focus
safety_step(features, score) ==
    IF ~Truthy(DictGet(features, "safety_focus", PyBool(FALSE))) THEN Ok(score - 10) ELSE Ok(score)

\* 7. Confidence: float(conf) under `except (ValueError, TypeError)`
conf_coerce(features) ==
    LET raw == DictGet(features, "website_confidence", None)
        cv  == IF raw.t # "none" THEN FloatOf(raw) ELSE Ok(PyFloat(500))
    IN  IF ~cv.ok /\ cv.exc \in {"ValueError", "TypeError"} THEN Ok(PyFloat(500)) ELSE cv

\* Variant: the penalty starts below 0.3.
conf_step_below_03(features, score) ==
    LET conf == conf_coerce(features)
    IN  IF ~conf.ok THEN conf
        ELSE IF conf.v.k = "ninf" \/ (conf.v.k = "fin" /\ conf.v.m < 300)
             THEN Ok(score - 25) ELSE Ok(score)

conf_step(features, score) ==
    LET conf == conf_coerce(features)
    IN  IF ~conf.ok THEN conf
        ELSE IF LessThanHalf(conf.v) THEN Ok(score - 25) ELSE Ok(score)

\* Variant: the score is capped at 100 but not floored at 0.
clamp_no_floor(score) == Min(100, score)

\* score = max(0, min(100, score))
clamp(score) == Max(0, Min(100, score))

\* Variant: segment A needs a score above 80.
segment_of_strict(score) ==
    CASE score > 80  -> "A"
      [] score >= 60 -> "B"
      [] score >= 40 -> "C"
      [] OTHER       -> ""

\* Segment assignment
segment_of(score) ==
    CASE score >= 80 -> "A"
      [] score >= 60 -> "B"
      [] score >= 40 -> "C"
      [] OTHER       -> ""

is_interesting_of(score) == score >= 40

Returned(score, segment, is_interesting) ==
    [kind |-> "return", score |-> score, segment |-> segment,
     is_interesting |-> is_interesting]

Raised(exc) == [kind |-> "raise", exc |-> exc]

\* The seven deduction blocks, in program order.
ScoreBlocks == <<"wtype", "scale", "pallets", "industry", "public", "safety", "conf">>

\* The block after the named one, or "finish" after the last.
AfterBlock(name) ==
    IF name = ScoreBlocks[Len(ScoreBlocks)] THEN "finish"
    ELSE ScoreBlocks[(CHOOSE i \in DOMAIN ScoreBlocks : ScoreBlocks[i] = name) + 1]

RunBlock(name, f, score) ==
    CASE name = "wtype"    -> wtype_step(f, score)
      [] name = "scale"    -> scale_step(f, score)
      [] name = "pallets"  -> pallets_step(f, score)
      [] name = "industry" -> industry_step(f, score)
      [] name = "public"   -> public_step(f, score)
      [] name = "safety"   -> safety_step(f, score)
      [] name = "conf"     -> conf_step(f, score)

\* Blocks i.. run in order on the running total; an exception ends the run.
RECURSIVE RunBlocksFrom(_, _, _)
RunBlocksFrom(i, features, total) ==
    IF i > Len(ScoreBlocks) \/ ~total.ok THEN total
    ELSE RunBlocksFrom(i + 1, features, RunBlock(ScoreBlocks[i], features, total.v))

\* The unclamped total the seven blocks leave in `score`, or the exception.
deductions(features) == RunBlocksFrom(1, features, Ok(100))

\* Clamp, segment and flag of a total; an exception propagates to the caller.
finish(total) ==
    IF total.ok
    THEN Returned(clamp(total.v), segment_of(clamp(total.v)),
                  is_interesting_of(clamp(total.v)))
    ELSE Raised(total.exc)

score_lead_deduction(features) ==
    IF Gate(features) THEN Returned(0, "", FALSE)
    ELSE finish(deductions(features))

(***************************************************************************)
(* make_sales_note(features): the sales note generator.                    *)
(***************************************************************************)
RECURSIVE Join(_, _)
Join(sep, parts) ==
    IF Len(parts) = 0 THEN ""
    ELSE IF Len(parts) = 1 THEN Head(parts)
    ELSE Head(parts) \o sep \o Join(sep, Tail(parts))

NoteReturned(note) == [kind |-> "return", note |-> note]

\* Variant: the freezer test on the type as written, without .lower().
note_locals_case_sensitive(features) ==
    LET wtype   == DictGet(features, "warehouse_type", PyStr("unknown"))
        lowered == PyLower(PyOr(wtype, PyStr("")))
    IN  IF ~lowered.ok THEN lowered
        ELSE Ok([wtype    |-> wtype,
                 pallets  |-> DictGet(features, "approx_pallet_capacity", PyStr("?")),
                 industry |-> DictGet(features, "industry", PyStr("unknown")),
                 scale    |-> DictGet(features, "approx_scale", PyStr("unknown")),
                 freezer_flag |-> Contains(PyOr(wtype, PyStr("")).s, "freezer")])

\* The locals read from the record (lines 129-133); the .lower() may raise.
note_locals(features) ==
    LET wtype   == DictGet(features, "warehouse_type", PyStr("unknown"))
        lowered == PyLower(PyOr(wtype, PyStr("")))
    IN  IF ~lowered.ok THEN lowered
        ELSE Ok([wtype    |-> wtype,
                 pallets  |-> DictGet(features, "approx_pallet_capacity", PyStr("?")),
                 industry |-> DictGet(features, "industry", PyStr("unknown")),
                 scale    |-> DictGet(features, "approx_scale", PyStr("unknown")),
                 freezer_flag |-> Contains(lowered.v.s, "freezer")])

\* parts and the joined string (lines 135-143).
note_format(loc) ==
    LET parts == <<
            PyStr(StrOf(PyOr(loc.wtype, PyStr("unknown"))) \o " warehouse"),
            IF Truthy(loc.scale) THEN PyStr("(" \o StrOf(loc.scale) \o ")") ELSE None,
            PyStr("~" \o StrOf(loc.pallets) \o " pallets"),
            PyStr("industry: " \o StrOf(loc.industry)),
            IF loc.freezer_flag THEN PyStr("[HIGH PRIORITY: freezer]") ELSE None >>
        kept == SelectSeq(parts, LAMBDA p : Truthy(p))
    IN  Join(", ", [i \in DOMAIN kept |-> StrOf(kept[i])])

make_sales_note(features) ==
    LET loc == note_locals(features)
    IN  IF loc.ok THEN NoteReturned(note_format(loc.v)) ELSE Raised(loc.exc)

(***************************************************************************)
(* Helpers of the batch: company_id, fetch_website_html, strip_html_tags.   *)
(***************************************************************************)
\* The first position from `from` on where s has w; 0 when there is none.
FirstIndex(s, w, from) ==
    IF \E i \in from..Len(s) : HasAt(s, i, w)
    THEN CHOOSE i \in from..Len(s) :
            HasAt(s, i, w) /\ \A j \in from..(i - 1) : ~HasAt(s, j, w)
    ELSE 0

\* sha1 of "name|location", taken as collision-free: the digest stands for
\* the key it was computed from.  A missing location is formatted "None".
company_id(name, location) == [sha1 |-> StrOf(name) \o "|" \o StrOf(location)]

\* The opening tag of the first <tag ...>...</tag> element of s (any case):
\* its position, the position of the > that ends it, and the position of
\* the closing tag after that; 0 where that part is missing.
ElementStart(s, tag) == FirstIndex(LowerStr(s), "<" \o tag, 1)
ElementGt(s, tag) ==
    IF ElementStart(s, tag) = 0 THEN 0
    ELSE FirstIndex(s, ">", ElementStart(s, tag) + Len(tag) + 1)
ElementClose(s, tag) ==
    IF ElementGt(s, tag) = 0 THEN 0
    ELSE FirstIndex(LowerStr(s), "</" \o tag \o ">", ElementGt(s, tag) + 1)

\* re.sub(r"<tag.*?>.*?</tag>", "", s, DOTALL | IGNORECASE)
RECURSIVE RemoveElements(_, _)
RemoveElements(s, tag) ==
    IF ElementClose(s, tag) = 0 THEN s
    ELSE SubSeq(s, 1, ElementStart(s, tag) - 1) \o
         RemoveElements(SubSeq(s, ElementClose(s, tag) + Len(tag) + 3, Len(s)), tag)

\* The first position where <[^>]+> matches, and the position of its >.
TagStart(s) ==
    IF \E i \in 1..Len(s) : HasAt(s, i, "<") /\ ~HasAt(s, i + 1, ">")
                            /\ FirstIndex(s, ">", i + 1) # 0
    THEN CHOOSE i \in 1..Len(s) :
            /\ HasAt(s, i, "<") /\ ~HasAt(s, i + 1, ">") /\ FirstIndex(s, ">", i + 1) # 0
            /\ \A j \in 1..(i - 1) :
                ~(HasAt(s, j, "<") /\ ~HasAt(s, j + 1, ">") /\ FirstIndex(s, ">", j + 1) # 0)
    ELSE 0

\* re.sub(r"<[^>]+>", " ", s)
RECURSIVE TagsToSpaces(_)
TagsToSpaces(s) ==
    IF TagStart(s) = 0 THEN s
    ELSE SubSeq(s, 1, TagStart(s) - 1) \o " " \o
         TagsToSpaces(SubSeq(s, FirstIndex(s, ">", TagStart(s) + 1) + 1, Len(s)))

\* The first whitespace character of s, and the first character after the
\* run it starts; 0 when s has no whitespace.
SpaceStart(s) ==
    IF \E i \in 1..Len(s) : SubSeq(s, i, i) \in Whitespace
    THEN CHOOSE i \in 1..Len(s) :
            /\ SubSeq(s, i, i) \in Whitespace
            /\ \A j \in 1..(i - 1) : SubSeq(s, j, j) \notin Whitespace
    ELSE 0
SpaceEnd(s) ==
    CHOOSE j \in (SpaceStart(s) + 1)..(Len(s) + 1) :
        /\ \A k \in SpaceStart(s)..(j - 1) : SubSeq(s, k, k) \in Whitespace
        /\ j = Len(s) + 1 \/ SubSeq(s, j, j) \notin Whitespace

\* re.sub(r"\s+", " ", s)
RECURSIVE CollapseSpace(_)
CollapseSpace(s) ==
    IF SpaceStart(s) = 0 THEN s
    ELSE SubSeq(s, 1, SpaceStart(s) - 1) \o " " \o
         CollapseSpace(SubSeq(s, SpaceEnd(s), Len(s)))

strip_html_tags(html) ==
    IF html = "" THEN ""
    ELSE Strip(CollapseSpace(TagsToSpaces(
            RemoveElements(RemoveElements(html, "script"), "style"))))

\* fetch_website_html(url): the page the site serves, "" when the url is
\* empty or the fetch raises.
FetchError == [kind |-> "fetch_error"]
Page(html) == [kind |-> "page", html |-> html]
\* Variant: a failed fetch hands the error page on instead of "".
fetch_website_html_error_page(url, served) ==
    IF ~Truthy(url) THEN ""
    ELSE IF served.kind = "page" THEN served.html
    ELSE "<h1>503 Service Unavailable</h1><p>The warehouse portal is down, retry later.</p>"

fetch_website_html(url, served) ==
    IF ~Truthy(url) THEN ""
    ELSE IF served.kind = "page" THEN served.html
    ELSE ""

(***************************************************************************)
(* heuristic_extract(text, company_name): the keyword fallback extractor.  *)
(* company_name is only printed.  re.search with an alternation of literal *)
(* words, some joined by \s+, is a search for any alternative anywhere in  *)
(* the text.                                                               *)
(***************************************************************************)
\* The position after the run of one or more whitespace characters that
\* starts at i, for every length of run the regex may take (\s+ backtracks).
SpaceRunEnds(s, i) ==
    {j \in (i + 1)..(Len(s) + 1) : \A k \in i..(j - 1) : SubSeq(s, k, k) \in Whitespace}

\* The words of an alternative match at position i, a \s+ between each two.
RECURSIVE MatchAt(_, _, _)
MatchAt(s, i, words) ==
    /\ HasAt(s, i, Head(words))
    /\ \/ Len(words) = 1
       \/ \E j \in SpaceRunEnds(s, i + Len(Head(words))) : MatchAt(s, j, Tail(words))

\* re.search(alternatives, s): some alternative matches at some position.
Search(alternatives, s) ==
    \E words \in alternatives : \E i \in 1..Len(s) : MatchAt(s, i, words)

warehouse_terms ==
    {"warehouse", "distribution center", "dc", "storage facility", "logistics center"}


\* Variant: the ambient test comes first, so ambient wins over cold-chain.
heuristic_type_ambient_first(text_lower) ==
    IF Search({<<"ambient">>, <<"dry", "storage">>}, text_lower) THEN "ambient"
    ELSE IF Search({<<"freez">>, <<"cold", "chain">>, <<"refrigerat">>, <<"cold", "storage">>, <<"temperature", "controlled">>}, text_lower) THEN "freezer"
    ELSE "unknown"

\* Temperature control (lines 241-245).
heuristic_type(text_lower) ==
    IF Search({<<"freez">>, <<"cold", "chain">>, <<"refrigerat">>, <<"cold", "storage">>, <<"temperature", "controlled">>}, text_lower) THEN "freezer"
    ELSE IF Search({<<"ambient">>, <<"dry", "storage">>}, text_lower) THEN "ambient"
    ELSE "unknown"

\* Industry detection (lines 247-253).
heuristic_industry(text_lower) ==
    IF Search({<<"3pl">>, <<"third", "party", "logistics">>}, text_lower) THEN "3PL logistics"
    ELSE IF Search({<<"food">>, <<"frozen">>, <<"fresh">>}, text_lower) THEN "food logistics"
    ELSE IF Search({<<"pharma">>, <<"medical">>}, text_lower) THEN "pharma distribution"
    ELSE ""

\* Variant: the two-letter term "dc" is not among the warehouse terms.
heuristic_has_warehouse_without_dc(text_lower) ==
    \E term \in warehouse_terms \ {"dc"} : Contains(text_lower, term)

\* Basic warehouse indicator (lines 236-239).
heuristic_has_warehouse(text_lower) ==
    \E term \in warehouse_terms : Contains(text_lower, term)

\* Variant: the confidence is raised when a warehouse term was found.
heuristic_record_confident(text_lower) ==
    [has_warehouse          |-> PyBool(heuristic_has_warehouse(text_lower)),
     warehouse_type         |-> PyStr(heuristic_type(text_lower)),
     approx_scale           |-> PyStr("unknown"),
     approx_pallet_capacity |-> None,
     industry               |-> PyStr(heuristic_industry(text_lower)),
     is_public_sector       |-> PyBool(Search({<<"government">>, <<"municipality">>, <<"gemeente">>, <<"public", "sector">>}, text_lower)),
     safety_focus           |-> PyBool(Search({<<"haccp">>, <<"iso">>, <<"brc">>, <<"ifs">>, <<"safety">>, <<"compliance">>, <<"certified">>}, text_lower)),
     website_confidence     |->
        IF heuristic_has_warehouse(text_lower) THEN PyFloat(500) ELSE PyFloat(300)]

\* The record built from the lower-cased text.
heuristic_record(text_lower) ==
    [has_warehouse          |-> PyBool(heuristic_has_warehouse(text_lower)),
     warehouse_type         |-> PyStr(heuristic_type(text_lower)),
     approx_scale           |-> PyStr("unknown"),
     approx_pallet_capacity |-> None,
     industry               |-> PyStr(heuristic_industry(text_lower)),
     is_public_sector       |-> PyBool(Search({<<"government">>, <<"municipality">>, <<"gemeente">>, <<"public", "sector">>}, text_lower)),
     safety_focus           |-> PyBool(Search({<<"haccp">>, <<"iso">>, <<"brc">>, <<"ifs">>, <<"safety">>, <<"compliance">>, <<"certified">>}, text_lower)),
     website_confidence     |-> PyFloat(300)]

\* Variant: the matched word is read with .group() from a search that may
\* have found nothing.
heuristic_extract_group(text) ==
    IF ~PyLower(text).ok THEN Raise(PyLower(text).exc)
    ELSE IF heuristic_type(PyLower(text).v.s) = "unknown" THEN Raise("AttributeError")
    ELSE Ok(heuristic_record(PyLower(text).v.s))

\* text.lower() raises on a value that is not a str.
heuristic_extract(text) ==
    IF PyLower(text).ok
    THEN Ok(heuristic_record(PyLower(text).v.s))
    ELSE Raise(PyLower(text).exc)

(***************************************************************************)
(* call_bedrock_extract(company_name, location, website_text): the model   *)
(* extractor with its fallback.  The remote invocation is the environment: *)
(* it raises, or returns a body, which may not be the JSON envelope, may    *)
(* lack content[0].text, or carries the model's text.                       *)
(***************************************************************************)
MinTextLen == 50

ApiError == [kind |-> "api_error"]
ModelText(s) == [kind |-> "text", text |-> s]

\* The Markdown code fence of three backquotes, a character a TLA+ string
\* cannot hold: each backquote is written as a tilde.
Fence == "~~~"

\* One of the two alternatives of the pattern fence-json-\s* | \s*-fence
\* matches at the start of s.
FenceAt(s) == HasAt(s, 1, Fence \o "json") \/ HasAt(StripLeft(s), 1, Fence)

\* s without the match at its start; the first alternative is tried first.
AfterFence(s) ==
    IF HasAt(s, 1, Fence \o "json")
    THEN StripLeft(SubSeq(s, Len(Fence) + 5, Len(s)))
    ELSE SubSeq(StripLeft(s), Len(Fence) + 1, Len(StripLeft(s)))

\* The positions of s where a match starts.
FenceStarts(s) == {i \in 1..Len(s) : FenceAt(SubSeq(s, i, Len(s)))}

\* s up to position i, then the rest with its leading match removed.
RECURSIVE RemoveFences(_)
CutAt(s, i) == SubSeq(s, 1, i - 1) \o RemoveFences(AfterFence(SubSeq(s, i, Len(s))))

\* re.sub(pattern, "", s): every match, leftmost first, is removed.
RemoveFences(s) ==
    IF FenceStarts(s) = {} THEN s
    ELSE CutAt(s, CHOOSE i \in FenceStarts(s) : \A j \in FenceStarts(s) : i <= j)

\* JSON documents a model may answer with, and the values json.loads gives.
GoodJson ==
    "{\"has_warehouse\": true, \"warehouse_type\": \"freezer\", \"approx_scale\": \"large\", \"approx_pallet_capacity\": 12000, \"industry\": \"3PL\", \"is_public_sector\": false, \"safety_focus\": true, \"website_confidence\": 0.9}"
OddJson == "{\"has_warehouse\": true, \"warehouse_type\": 5}"
\* An answer to the combined prompt of lolcode.py, which asks the model for
\* the score, the segment and the note as well.
ScoredJson ==
    "{\"has_warehouse\": false, \"warehouse_type\": \"unknown\", \"score\": 95, \"segment\": \"A\", \"sales_note\": \"Call today\"}"

\* json.loads(s) on the documents above; any other text here is not JSON.
JsonLoads(s) ==
    CASE s = GoodJson ->
            Ok([has_warehouse |-> PyBool(TRUE), warehouse_type |-> PyStr("freezer"),
                approx_scale |-> PyStr("large"),
                approx_pallet_capacity |-> PyInt(12000),
                industry |-> PyStr("3PL"), is_public_sector |-> PyBool(FALSE),
                safety_focus |-> PyBool(TRUE), website_confidence |-> PyFloat(900)])
      [] s = OddJson ->
            Ok([has_warehouse |-> PyBool(TRUE), warehouse_type |-> PyInt(5)])
      [] s = ScoredJson ->
            Ok([has_warehouse |-> PyBool(FALSE), warehouse_type |-> PyStr("unknown"),
                score |-> PyInt(95), segment |-> PyStr("A"),
                sales_note |-> PyStr("Call today")])
      [] s = "[]"     -> Ok(PyList(<<>>))
      [] s = "null"   -> Ok(None)
      [] s = "42"     -> Ok(PyInt(42))
      [] OTHER        -> Raise("JSONDecodeError")

\* Variant: a text of exactly the minimum length is still too short.
too_short_inclusive(website_text) ==
    ~Truthy(website_text) \/ Len(website_text.s) <= MinTextLen

\* `not website_text or len(website_text) < 50`
too_short(website_text) ==
    ~Truthy(website_text) \/ Len(website_text.s) < MinTextLen

\* The try block (lines 274-300): the features parsed from the reply, or the
\* exception raised on the way.
parse_reply(reply) ==
    CASE reply.kind = "api_error"  -> Raise("ClientError")
      [] reply.kind = "bad_body"   -> Raise("JSONDecodeError")
      [] reply.kind = "no_content" -> Raise("KeyError")
      [] reply.kind = "text" ->
            JsonLoads(Strip(RemoveFences(Strip(reply.text))))

\* Lines 291-304: the parsed features are returned; any exception of the
\* try block is caught and answered with the heuristic record.
after_invoke(website_text, reply) ==
    IF parse_reply(reply).ok THEN parse_reply(reply)
    ELSE heuristic_extract(website_text)

\* The whole function, given the reply the invocation would get.
call_bedrock_extract(website_text, reply) ==
    IF too_short(website_text) THEN heuristic_extract(website_text)
    ELSE after_invoke(website_text, reply)

(***************************************************************************)
(* Feature Records put through the two functions.  Absent marks a key the  *)
(* dict does not have.  Each field's values cover the documented cases,    *)
(* their boundaries, and values of an unexpected type.                     *)
(***************************************************************************)
Absent == [t |-> "absent"]


Fields ==
    {"has_warehouse", "warehouse_type", "approx_scale", "approx_pallet_capacity",
     "industry", "is_public_sector", "safety_focus", "website_confidence"}

FieldValues(k) ==
    CASE k = "has_warehouse" -> {PyBool(TRUE), PyBool(FALSE), Absent}
      [] k = "warehouse_type" ->
            {PyStr("freezer"), PyStr("Mixed"), PyStr("ambient"), PyStr("deep freezer"),
             Absent, PyInt(5)}
      [] k = "approx_scale" ->
            {PyStr("large"), PyStr("medium"), PyStr("Small"), Absent}
      [] k = "approx_pallet_capacity" ->
            {PyInt(30001), PyInt(30000), PyInt(7000), PyInt(6999), PyInt(1), PyInt(0),
             Absent, PyStr("abc"), PyInf}
      [] k = "industry" ->
            {PyStr(""), PyStr("Food Wholesale"), PyStr("Bouw"), PyStr("consulting"),
             PyStr("unknown")}
      [] k = "is_public_sector" -> {PyBool(TRUE), PyBool(FALSE)}
      [] k = "safety_focus" -> {PyBool(TRUE), PyBool(FALSE), Absent}
      [] k = "website_confidence" ->
            {PyFloat(1500), PyFloat(500), PyFloat(490), Absent, PyStr("n/a")}

\* The dict holding exactly the keys whose chosen value is not Absent.
MkDict(c) == [k \in {f \in DOMAIN c : c[f] # Absent} |-> c[k]]

\* d with key k bound to v, or without key k when v is Absent.
Put(d, k, v) ==
    [f \in (IF v = Absent THEN DOMAIN d \ {k} ELSE DOMAIN d \cup {k}) |->
        IF f = k THEN v ELSE d[f]]

(***************************************************************************)
(* State.                                                                  *)
(*   features, result, note : a caller holding one Feature Record and the  *)
(*       values the two functions last returned for it                     *)
(*   edited : the field in which the caller last changed the record        *)
(*   pool, pc, arg, op, frames, ret, first : concurrent invocations        *)
(*       (one per element of Procs) stepping through the two functions on  *)
(*       shared records; frames holds each invocation's local variables,   *)
(*       first the first value each (record, function) pair returned       *)
(*   text, extracted : a website text and what the extractor returned for  *)
(*       it                                                                *)
(*   xpc, reply, invoked : the position of a call_bedrock_extract call,    *)
(*       the reply of the remote model, whether the model was invoked      *)
(*   rows, idx, stage, cur : the rows the csv reader yields, the index of   *)
(*       the next one, the position in the batch loop, the locals of the   *)
(*       row being handled                                                 *)
(*   results, processed, errors, summary : the records collected, the two  *)
(*       counters, and the response the handler returns                    *)
(***************************************************************************)
VARIABLES features, result, note, edited, pool, pc, arg, op, frames, ret, first,
          text, extracted, xpc, reply, invoked,
          rows, idx, stage, cur, results, processed, errors, summary

seqvars == <<features, result, note, edited>>
parvars == <<pool, pc, arg, op, frames, ret, first>>
pipevars == <<text, extracted, xpc, reply, invoked>>
batchvars == <<rows, idx, stage, cur, results, processed, errors, summary>>
vars == <<features, result, note, edited, pool, pc, arg, op, frames, ret, first,
          text, extracted, xpc, reply, invoked,
          rows, idx, stage, cur, results, processed, errors, summary>>

NotCalled == [kind |-> "none"]

NumProcs == 2
Procs == 1..NumProcs

\* Records shared by the concurrent invocations.
PoolRecords == <<
    [has_warehouse |-> PyBool(TRUE), warehouse_type |-> PyStr("Mixed"),
     approx_scale |-> PyStr("medium"), approx_pallet_capacity |-> PyInt(7000),
     industry |-> PyStr("Bouw"), is_public_sector |-> PyBool(FALSE),
     safety_focus |-> PyBool(TRUE), website_confidence |-> PyFloat(1500)],
    [has_warehouse |-> PyBool(TRUE), warehouse_type |-> PyStr("freezer"),
     approx_scale |-> PyList(<<"big">>), industry |-> PyStr("Food Wholesale")] >>

Ops == {"score", "note"}

\* A call frame whose locals are not yet bound.
BlankFrame == [score |-> 0, loc |-> None]

\* Variant: the locals live in one module-level cell shared by all calls.
FrameShared(p) == 1

\* The frame holding invocation p's locals: every call has its own.
Frame(p) == p

ParIdle ==
    /\ pool = <<>>
    /\ pc = [p \in Procs |-> "idle"]
    /\ arg = [p \in Procs |-> 0]
    /\ op = [p \in Procs |-> "none"]
    /\ frames = [p \in Procs |-> BlankFrame]
    /\ ret = [p \in Procs |-> NotCalled]
    /\ first = <<>>

\* No batch under way.
BatchIdle ==
    /\ rows = <<>>
    /\ idx = 0
    /\ stage = "idle"
    /\ cur = NotCalled
    /\ results = <<>>
    /\ processed = 0
    /\ errors = 0
    /\ summary = NotCalled

\* No extraction under way.
PipeIdle ==
    /\ text = None
    /\ extracted = NotCalled
    /\ xpc = "idle"
    /\ reply = NotCalled
    /\ invoked = FALSE

(***************************************************************************)
(* Spec: every Feature Record of the value sets, scored and noted.         *)
(***************************************************************************)
Init ==
    /\ \E hw \in FieldValues("has_warehouse"), wt \in FieldValues("warehouse_type"),
          sc \in FieldValues("approx_scale"),
          pal \in FieldValues("approx_pallet_capacity"),
          ind \in FieldValues("industry"), pub \in FieldValues("is_public_sector"),
          sf \in FieldValues("safety_focus"), cf \in FieldValues("website_confidence") :
            features = MkDict([has_warehouse |-> hw, warehouse_type |-> wt,
                               approx_scale |-> sc, approx_pallet_capacity |-> pal,
                               industry |-> ind, is_public_sector |-> pub,
                               safety_focus |-> sf, website_confidence |-> cf])
    /\ result = NotCalled
    /\ note = NotCalled
    /\ edited = "none"
    /\ ParIdle
    /\ BatchIdle
    /\ PipeIdle

\* score, segment, is_interesting = score_lead_deduction(features)
Score ==
    /\ result' = score_lead_deduction(features)
    /\ UNCHANGED <<features, note, edited>>
    /\ UNCHANGED parvars
    /\ UNCHANGED batchvars
    /\ UNCHANGED pipevars

\* Variant: make_sales_note reads warehouse_type with setdefault, which
\* stores the default in the record.
Note_setdefault ==
    /\ note' = make_sales_note(features)
    /\ features' = IF "warehouse_type" \in DOMAIN features THEN features
                   ELSE Put(features, "warehouse_type", PyStr("unknown"))
    /\ UNCHANGED <<result, edited>>
    /\ UNCHANGED parvars
    /\ UNCHANGED batchvars
    /\ UNCHANGED pipevars

\* sales_note = make_sales_note(features)
Note ==
    /\ note' = make_sales_note(features)
    /\ UNCHANGED <<features, result, edited>>
    /\ UNCHANGED parvars
    /\ UNCHANGED batchvars
    /\ UNCHANGED pipevars

Next == Score \/ Note

Spec == Init /\ [][Next]_vars

(***************************************************************************)
(* SpecDelta: a scored record with a warehouse, then the record that       *)
(* differs from it in one field, scored in turn.                           *)
(***************************************************************************)
HasWarehouse(f) == "has_warehouse" \in DOMAIN f /\ f["has_warehouse"] = PyBool(TRUE)

\* The records first scored: a warehouse, every band of every deduction.
BaseValues(k) ==
    CASE k = "warehouse_type" ->
            {PyStr("freezer"), PyStr("Mixed"), PyStr("ambient"), Absent}
      [] k = "approx_scale" -> {PyStr("large"), PyStr("medium"), PyStr("Small")}
      [] k = "approx_pallet_capacity" ->
            {PyInt(30001), PyInt(7000), PyInt(6999), PyStr("abc")}
      [] k = "industry" -> {PyStr("Food Wholesale"), PyStr("Bouw"), PyStr("consulting")}
      [] k = "is_public_sector" -> FieldValues(k)
      [] k = "safety_focus" -> {PyBool(TRUE), Absent}
      [] k = "website_confidence" -> {PyFloat(1500), PyFloat(490), PyStr("n/a")}

InitDelta ==
    /\ \E wt \in BaseValues("warehouse_type"), sc \in BaseValues("approx_scale"),
          pal \in BaseValues("approx_pallet_capacity"), ind \in BaseValues("industry"),
          pub \in BaseValues("is_public_sector"), sf \in BaseValues("safety_focus"),
          cf \in BaseValues("website_confidence") :
            features = MkDict([has_warehouse |-> PyBool(TRUE), warehouse_type |-> wt,
                               approx_scale |-> sc, approx_pallet_capacity |-> pal,
                               industry |-> ind, is_public_sector |-> pub,
                               safety_focus |-> sf, website_confidence |-> cf])
    /\ result = NotCalled
    /\ note = NotCalled
    /\ edited = "none"
    /\ ParIdle
    /\ BatchIdle
    /\ PipeIdle

\* score_lead_deduction on a copy of the record with field k set to v
ScoreVariant(k, v) ==
    /\ result.kind = "return"
    /\ HasWarehouse(features)
    /\ edited = "none"
    /\ Put(features, k, v) # features
    /\ features' = Put(features, k, v)
    /\ edited' = k
    /\ result' = score_lead_deduction(features')
    /\ UNCHANGED note
    /\ UNCHANGED parvars
    /\ UNCHANGED batchvars
    /\ UNCHANGED pipevars

NextDelta ==
    \/ Score
    \/ \E k \in Fields : \E v \in FieldValues(k) : ScoreVariant(k, v)

SpecDelta == InitDelta /\ [][NextDelta]_vars

(***************************************************************************)
(* SpecPar: invocations of the two functions running in parallel on the    *)
(* shared records of the pool, one block of a function per step.           *)
(***************************************************************************)
InitPar ==
    /\ features = <<>>
    /\ result = NotCalled
    /\ note = NotCalled
    /\ edited = "none"
    /\ pool = PoolRecords
    /\ pc = [p \in Procs |-> "idle"]
    /\ arg = [p \in Procs |-> 0]
    /\ op = [p \in Procs |-> "none"]
    /\ frames = [p \in Procs |-> BlankFrame]
    /\ ret = [p \in Procs |-> NotCalled]
    /\ first = [i \in DOMAIN PoolRecords |-> [o \in Ops |-> NotCalled]]
    /\ PipeIdle
    /\ BatchIdle

\* A caller invokes function o on pool record i.
Call(p, i, o) ==
    /\ pc[p] = "idle"
    /\ pc' = [pc EXCEPT ![p] = IF o = "score" THEN "gate" ELSE "note_read"]
    /\ arg' = [arg EXCEPT ![p] = i]
    /\ op' = [op EXCEPT ![p] = o]
    /\ UNCHANGED <<pool, frames, ret, first>>
    /\ UNCHANGED seqvars
    /\ UNCHANGED pipevars
    /\ UNCHANGED batchvars

\* Variant: a memo that ignores its key answers with the first score
\* result any record produced.
EnterGateMemo(p) ==
    /\ pc[p] = "gate"
    /\ IF \E i \in DOMAIN first : first[i]["score"] # NotCalled
       THEN /\ ret' = [ret EXCEPT ![p] =
                        first[CHOOSE i \in DOMAIN first : first[i]["score"] # NotCalled]["score"]]
            /\ pc' = [pc EXCEPT ![p] = "done"]
            /\ UNCHANGED frames
       ELSE IF Gate(pool[arg[p]])
       THEN /\ ret' = [ret EXCEPT ![p] = Returned(0, "", FALSE)]
            /\ pc' = [pc EXCEPT ![p] = "done"]
            /\ UNCHANGED frames
       ELSE /\ frames' = [frames EXCEPT ![Frame(p)].score = 100]
            /\ pc' = [pc EXCEPT ![p] = "wtype"]
            /\ UNCHANGED ret
    /\ UNCHANGED <<pool, arg, op, first>>
    /\ UNCHANGED seqvars
    /\ UNCHANGED pipevars
    /\ UNCHANGED batchvars

\* The gate, then `score = 100`.
EnterGate(p) ==
    /\ pc[p] = "gate"
    /\ IF Gate(pool[arg[p]])
       THEN /\ ret' = [ret EXCEPT ![p] = Returned(0, "", FALSE)]
            /\ pc' = [pc EXCEPT ![p] = "done"]
            /\ UNCHANGED frames
       ELSE /\ frames' = [frames EXCEPT ![Frame(p)].score = 100]
            /\ pc' = [pc EXCEPT ![p] = "wtype"]
            /\ UNCHANGED ret
    /\ UNCHANGED <<pool, arg, op, first>>
    /\ UNCHANGED seqvars
    /\ UNCHANGED pipevars
    /\ UNCHANGED batchvars

\* One of the seven deduction blocks.
Deduct(p) ==
    /\ \E i \in DOMAIN ScoreBlocks : pc[p] = ScoreBlocks[i]
    /\ LET r == RunBlock(pc[p], pool[arg[p]], frames[Frame(p)].score)
       IN  IF r.ok
           THEN /\ frames' = [frames EXCEPT ![Frame(p)].score = r.v]
                /\ pc' = [pc EXCEPT ![p] = AfterBlock(pc[p])]
                /\ UNCHANGED ret
           ELSE /\ ret' = [ret EXCEPT ![p] = Raised(r.exc)]
                /\ pc' = [pc EXCEPT ![p] = "done"]
                /\ UNCHANGED frames
    /\ UNCHANGED <<pool, arg, op, first>>
    /\ UNCHANGED seqvars
    /\ UNCHANGED pipevars
    /\ UNCHANGED batchvars

\* Clamp, segment, is_interesting, return.
Finish(p) ==
    /\ pc[p] = "finish"
    /\ ret' = [ret EXCEPT ![p] = finish(Ok(frames[Frame(p)].score))]
    /\ pc' = [pc EXCEPT ![p] = "done"]
    /\ UNCHANGED <<pool, arg, op, frames, first>>
    /\ UNCHANGED seqvars
    /\ UNCHANGED pipevars
    /\ UNCHANGED batchvars

\* make_sales_note: the reads of the record into locals.
NoteRead(p) ==
    /\ pc[p] = "note_read"
    /\ LET loc == note_locals(pool[arg[p]])
       IN  IF loc.ok
           THEN /\ frames' = [frames EXCEPT ![Frame(p)].loc = loc.v]
                /\ pc' = [pc EXCEPT ![p] = "note_format"]
                /\ UNCHANGED ret
           ELSE /\ ret' = [ret EXCEPT ![p] = Raised(loc.exc)]
                /\ pc' = [pc EXCEPT ![p] = "done"]
                /\ UNCHANGED frames
    /\ UNCHANGED <<pool, arg, op, first>>
    /\ UNCHANGED seqvars
    /\ UNCHANGED pipevars
    /\ UNCHANGED batchvars

\* make_sales_note: parts, join, return.
NoteFormat(p) ==
    /\ pc[p] = "note_format"
    /\ ret' = [ret EXCEPT ![p] = NoteReturned(note_format(frames[Frame(p)].loc))]
    /\ pc' = [pc EXCEPT ![p] = "done"]
    /\ UNCHANGED <<pool, arg, op, frames, first>>
    /\ UNCHANGED seqvars
    /\ UNCHANGED pipevars
    /\ UNCHANGED batchvars

\* The call returns to its caller; its frame is discarded.
Return(p) ==
    /\ pc[p] = "done"
    /\ pc' = [pc EXCEPT ![p] = "idle"]
    /\ frames' = [frames EXCEPT ![Frame(p)] = BlankFrame]
    /\ first' = IF first[arg[p]][op[p]] = NotCalled
                THEN [first EXCEPT ![arg[p]][op[p]] = ret[p]]
                ELSE first
    /\ arg' = [arg EXCEPT ![p] = 0]
    /\ op' = [op EXCEPT ![p] = "none"]
    /\ ret' = [ret EXCEPT ![p] = NotCalled]
    /\ UNCHANGED pool
    /\ UNCHANGED seqvars
    /\ UNCHANGED pipevars
    /\ UNCHANGED batchvars

NextPar ==
    \E p \in Procs :
        \/ \E i \in DOMAIN PoolRecords : \E o \in Ops : Call(p, i, o)
        \/ EnterGate(p)
        \/ Deduct(p)
        \/ Finish(p)
        \/ NoteRead(p)
        \/ NoteFormat(p)
        \/ Return(p)

SpecPar == InitPar /\ [][NextPar]_vars

(***************************************************************************)
(* SpecNote: make_sales_note on every record of the four fields it reads,  *)
(* each field present with a usual value, falsy, null, missing or of an    *)
(* unexpected type.                                                        *)
(***************************************************************************)

InitNote ==
    /\ \E wt \in {PyStr("freezer"), PyStr("Deep FREEZER"), PyStr("ambient"), PyStr(""), None, Absent, PyInt(5), PyInt(0)},
          sc \in {PyStr("large"), PyStr(""), None, Absent, PyList(<<"big">>)},
          pal \in {PyInt(12000), PyInt(0), None, Absent, PyStr("")},
          ind \in {PyStr("3PL"), PyStr(""), None, Absent, PyInt(7)} :
            features = MkDict([warehouse_type |-> wt, approx_scale |-> sc,
                               approx_pallet_capacity |-> pal, industry |-> ind])
    /\ result = NotCalled
    /\ note = NotCalled
    /\ edited = "none"
    /\ ParIdle
    /\ BatchIdle
    /\ PipeIdle

SpecNote == InitNote /\ [][Note]_vars

(***************************************************************************)
(* SpecHeur: heuristic_extract on the empty text and on every text made of *)
(* two phrases, in mixed case, with and without the vocabulary it looks    *)
(* for; the record it gives is then scored, as the handler scores the     *)
(* features of a row that fell back to it.                                 *)
(***************************************************************************)
Texts ==
    LET Phrases ==
            {"", "Warehouse", "our DC", "podcast", "Storage Facility", "cold", "storage",
             "cold \t storage", "coldstorage", "Freezing", "Cold Chain", "Ambient",
             "dry storage", "refrigerated", "temperature controlled", "HACCP certified",
             "3PL", "gemeente", "frozen food", "pharma", "refrigerated warehouse"}
    IN  {PyStr("")} \cup {PyStr(a \o " " \o b) : a \in Phrases, b \in Phrases}

\* What an extractor handed back: the record, or the exception.
Extracted(r) ==
    IF r.ok THEN [kind |-> "return", features |-> r.v] ELSE Raised(r.exc)

InitHeur ==
    /\ features = <<>>
    /\ result = NotCalled
    /\ note = NotCalled
    /\ edited = "none"
    /\ ParIdle
    /\ BatchIdle
    /\ text \in Texts
    /\ extracted = NotCalled
    /\ xpc = "idle"
    /\ reply = NotCalled
    /\ invoked = FALSE

\* result = heuristic_extract(text, company_name)
Heuristic ==
    /\ extracted' = Extracted(heuristic_extract(text))
    /\ UNCHANGED <<text, xpc, reply, invoked>>
    /\ UNCHANGED seqvars
    /\ UNCHANGED parvars
    /\ UNCHANGED batchvars

\* score, segment, is_interesting = score_lead_deduction(features), on the
\* record the fallback gave.
ScoreExtracted ==
    /\ extracted # NotCalled /\ extracted.kind = "return"
    /\ result = NotCalled
    /\ features' = extracted.features
    /\ result' = score_lead_deduction(extracted.features)
    /\ UNCHANGED <<note, edited>>
    /\ UNCHANGED pipevars
    /\ UNCHANGED parvars
    /\ UNCHANGED batchvars

NextHeur == Heuristic \/ ScoreExtracted

SpecHeur == InitHeur /\ [][NextHeur]_vars

(***************************************************************************)
(* SpecExtract: call_bedrock_extract on texts just below, at and above the *)
(* minimum length, with every reply of the remote model.                   *)
(***************************************************************************)
\* s followed by dots up to length n.
RECURSIVE PadTo(_, _)
PadTo(s, n) == IF Len(s) >= n THEN s ELSE PadTo(s \o ".", n)

ExtractTexts ==
    {PyStr("")} \cup
    {PyStr(PadTo(t, n)) : t \in {"Warehouse with cold storage", "Ambient DC", "Consulting"},
                          n \in {MinTextLen - 1, MinTextLen, MinTextLen + 1}}

Replies ==
    {ApiError, [kind |-> "bad_body"], [kind |-> "no_content"]} \cup
    {ModelText(s) :
        s \in {GoodJson, Fence \o "json " \o GoodJson \o " " \o Fence,
               "  " \o GoodJson \o " ", OddJson, "[]", "null", "42",
               "Sorry, I cannot help with that.", ""}}

InitExtract ==
    /\ features = <<>>
    /\ result = NotCalled
    /\ note = NotCalled
    /\ edited = "none"
    /\ ParIdle
    /\ BatchIdle
    /\ text \in ExtractTexts
    /\ extracted = NotCalled
    /\ xpc = "start"
    /\ reply = NotCalled
    /\ invoked = FALSE

\* The length test (lines 268-270).
CheckLength ==
    /\ xpc = "start"
    /\ IF too_short(text)
       THEN /\ extracted' = Extracted(heuristic_extract(text))
            /\ xpc' = "done"
       ELSE /\ xpc' = "invoke"
            /\ UNCHANGED extracted
    /\ UNCHANGED <<text, reply, invoked>>
    /\ UNCHANGED seqvars
    /\ UNCHANGED parvars
    /\ UNCHANGED batchvars

\* bedrock.invoke_model(...): the remote model answers, or the call raises.
Invoke ==
    /\ xpc = "invoke"
    /\ \E r \in Replies : reply' = r
    /\ invoked' = TRUE
    /\ xpc' = "parse"
    /\ UNCHANGED <<text, extracted>>
    /\ UNCHANGED seqvars
    /\ UNCHANGED parvars
    /\ UNCHANGED batchvars

\* The rest of the try block and its except clause.
Parse ==
    /\ xpc = "parse"
    /\ extracted' = Extracted(after_invoke(text, reply))
    /\ xpc' = "done"
    /\ UNCHANGED <<text, reply, invoked>>
    /\ UNCHANGED seqvars
    /\ UNCHANGED parvars
    /\ UNCHANGED batchvars

NextExtract == CheckLength \/ Invoke \/ Parse

SpecExtract == InitExtract /\ [][NextExtract]_vars

(***************************************************************************)
(* SpecBatch: lambda_handler, from reading the input to its response       *)
(* (run_lead_scorer_local in final.py has the same loop over a file it     *)
(* reads as the loop goes).  The store, the web and the remote model are   *)
(* the environment: reading the input, each fetch and each invocation get  *)
(* one of their possible outcomes.  rows is what the csv reader gives, row *)
(* by row, when the input can be read.                                     *)
(***************************************************************************)
\* MAX_COMPANIES is read from the environment (20 when unset); the batches
\* here run with a limit that a batch of MaxRows rows can reach.
MAX_COMPANIES == 2
MaxRows == 3

\* next(reader) raises on a row it cannot parse: _csv.Error for a field
\* longer than csv.field_size_limit().
CsvError == [raises |-> "_csv.Error"]

RowKinds ==
    {CsvError,
     [name |-> PyStr("Acme"), location |-> PyStr("Paris"),
      website |-> PyStr("https://acme.example")],
     [company |-> PyStr("Beta"), city |-> PyStr("Oslo"), website |-> PyStr("")],
     [name |-> PyStr(""), location |-> PyStr("Rome"),
      website |-> PyStr("https://noname.example")],
     [Company |-> PyStr("Gamma"), Location |-> PyStr("Gent"),
      Website |-> PyStr("https://gamma.example")]}

Served ==
    {FetchError,
     Page("<html><head><style>b{}</style></head><body><h1>Acme</h1> <p>Frozen food warehouse and cold storage, HACCP certified.</p></body></html>"),
     Page("<p>Ambient DC</p>")}

BatchReplies ==
    {ApiError, ModelText(GoodJson), ModelText(OddJson), ModelText("[]"),
     ModelText("Sorry, I cannot help with that.")}

\* A value json.loads gave is a dict (a function from keys), not a tagged
\* scalar or list.
IsDict(v) == "t" \notin DOMAIN v

\* score_lead_deduction as called on whatever the extractor returned:
\* features.get on a value that is not a dict raises AttributeError.
ScoreOf(f) == IF IsDict(f) THEN score_lead_deduction(f) ELSE Raised("AttributeError")
NoteOf(f) == IF IsDict(f) THEN make_sales_note(f) ELSE Raised("AttributeError")

InitBatch ==
    /\ features = <<>>
    /\ result = NotCalled
    /\ note = NotCalled
    /\ edited = "none"
    /\ ParIdle
    /\ PipeIdle
    /\ rows \in UNION {[1..n -> RowKinds] : n \in 0..MaxRows}
    /\ idx = 1
    /\ stage = "open"
    /\ cur = NotCalled
    /\ results = <<>>
    /\ processed = 0
    /\ errors = 0
    /\ summary = NotCalled

\* The outer `except Exception` (lines 404-409): the error response.
Fatal(exc) ==
    /\ summary' = [statusCode |-> 500, error |-> exc]
    /\ stage' = "done"

\* The object is fetched from the store and decoded, or that raises
\* (lines 322-328).
Open ==
    /\ stage = "open"
    /\ \/ /\ stage' = "loop"
          /\ UNCHANGED summary
       \/ Fatal("NoSuchKey")
    /\ UNCHANGED <<rows, idx, cur, results, processed, errors>>
    /\ UNCHANGED <<seqvars, parvars, pipevars>>

\* `for row in reader:` and the limit test (lines 330-332): the reader is
\* asked for the next row before the limit is tested, and what it raises is
\* raised outside the row's try.
NextRow ==
    /\ stage = "loop"
    /\ IF idx <= Len(rows) /\ rows[idx] = CsvError
       THEN /\ Fatal(CsvError.raises)
            /\ UNCHANGED <<idx, cur>>
       ELSE /\ UNCHANGED summary
            /\ IF idx > Len(rows) \/ processed >= MAX_COMPANIES
               THEN /\ stage' = "summary"
                    /\ UNCHANGED <<idx, cur>>
               ELSE /\ cur' = [row |-> rows[idx]]
                    /\ idx' = idx + 1
                    /\ stage' = "names"
    /\ UNCHANGED <<rows, results, processed, errors>>
    /\ UNCHANGED <<seqvars, parvars, pipevars>>

\* name, location, website under their column aliases (lines 335-337).
row_name(row) ==
    PyOr(PyOr(DictGet(row, "name", None), DictGet(row, "company", None)),
         DictGet(row, "Company", None))
row_location(row) ==
    PyOr(PyOr(DictGet(row, "location", None), DictGet(row, "Location", None)),
         DictGet(row, "city", PyStr("")))
row_website(row) == PyOr(DictGet(row, "website", None), DictGet(row, "Website", None))

\* The names are read; a row without a name is skipped (lines 335-347).
ReadNames ==
    /\ stage = "names"
    /\ IF ~Truthy(row_name(cur.row))
       THEN /\ stage' = "loop"
            /\ cur' = NotCalled
       ELSE /\ cur' = [name |-> row_name(cur.row), location |-> row_location(cur.row),
                       website |-> row_website(cur.row),
                       company_id |-> company_id(row_name(cur.row), row_location(cur.row))]
            /\ stage' = "fetch"
    /\ UNCHANGED <<rows, idx, results, processed, errors, summary>>
    /\ UNCHANGED <<seqvars, parvars, pipevars>>

\* cur with the fields of more added.
With(c, more) ==
    [k \in DOMAIN c \cup DOMAIN more |-> IF k \in DOMAIN more THEN more[k] ELSE c[k]]

\* html = fetch_website_html(website) if website else ""; text =
\* strip_html_tags(html) (lines 349-350).  fetched keeps what the web did
\* for this row: "none" when no request was made.
Fetch ==
    /\ stage = "fetch"
    /\ \E served \in Served :
          \/ /\ Truthy(cur.website)
             /\ cur' = With(cur, [fetched |-> served.kind, text |->
                    PyStr(strip_html_tags(fetch_website_html(cur.website, served)))])
          \/ /\ ~Truthy(cur.website)
             /\ cur' = With(cur, [fetched |-> "none",
                                  text |-> PyStr(strip_html_tags(""))])
    /\ stage' = "extract"
    /\ UNCHANGED <<rows, idx, results, processed, errors, summary>>
    /\ UNCHANGED <<seqvars, parvars, pipevars>>

\* `except Exception` of the row (lines 380-383): the row is counted as an
\* error and the loop goes on.
RowFails ==
    /\ errors' = errors + 1
    /\ stage' = "loop"
    /\ cur' = NotCalled
    /\ UNCHANGED <<results, processed>>

\* features = call_bedrock_extract(name, location, text) (line 352); the
\* model is asked only for a text that is long enough.
ExtractWith(r) ==
    IF call_bedrock_extract(cur.text, r).ok
    THEN /\ cur' = With(cur, [reply |-> r,
                              features |-> call_bedrock_extract(cur.text, r).v])
         /\ stage' = "score"
         /\ UNCHANGED <<results, processed, errors>>
    ELSE RowFails

Extract ==
    /\ stage = "extract"
    /\ IF too_short(cur.text) THEN ExtractWith(NotCalled)
       ELSE \E r \in BatchReplies : ExtractWith(r)
    /\ UNCHANGED <<rows, idx, summary>>
    /\ UNCHANGED <<seqvars, parvars, pipevars>>

\* score, segment, is_interesting = score_lead_deduction(features) (line 353)
ScoreRow ==
    /\ stage = "score"
    /\ IF ScoreOf(cur.features).kind = "return"
       THEN /\ cur' = With(cur, [scored |-> ScoreOf(cur.features)])
            /\ stage' = "note"
            /\ UNCHANGED <<results, processed, errors>>
       ELSE RowFails
    /\ UNCHANGED <<rows, idx, summary>>
    /\ UNCHANGED <<seqvars, parvars, pipevars>>

\* The output record of the row (lines 366-376).
rec(c, sales_note) ==
    [company_id |-> c.company_id, name |-> c.name, location |-> c.location,
     website |-> c.website, features |-> c.features, score |-> c.scored.score,
     segment |-> c.scored.segment, is_interesting |-> c.scored.is_interesting,
     sales_note |-> sales_note]

\* Variant: the record is appended but processed is not incremented.
NoteRow_uncounted ==
    /\ stage = "note"
    /\ IF NoteOf(cur.features).kind = "return"
       THEN /\ results' = Append(results, rec(cur, NoteOf(cur.features).note))
            /\ stage' = "loop"
            /\ cur' = NotCalled
            /\ UNCHANGED <<processed, errors>>
       ELSE RowFails
    /\ UNCHANGED <<rows, idx, summary>>
    /\ UNCHANGED <<seqvars, parvars, pipevars>>

\* sales_note = make_sales_note(features); the record is appended and
\* counted (lines 354-379).
NoteRow ==
    /\ stage = "note"
    /\ IF NoteOf(cur.features).kind = "return"
       THEN /\ results' = Append(results, rec(cur, NoteOf(cur.features).note))
            /\ processed' = processed + 1
            /\ stage' = "loop"
            /\ cur' = NotCalled
            /\ UNCHANGED errors
       ELSE RowFails
    /\ UNCHANGED <<rows, idx, summary>>
    /\ UNCHANGED <<seqvars, parvars, pipevars>>

\* The summary and the response (lines 385-402).
Summarize ==
    /\ stage = "summary"
    /\ summary' = [statusCode |-> 200, processed |-> processed, errors |-> errors,
                   preview |-> SubSeq(results, 1, Min(5, Len(results)))]
    /\ stage' = "done"
    /\ UNCHANGED <<rows, idx, cur, results, processed, errors>>
    /\ UNCHANGED <<seqvars, parvars, pipevars>>

NextBatch == Open \/ NextRow \/ ReadNames \/ Fetch \/ Extract \/ ScoreRow \/ NoteRow \/ Summarize

SpecBatch == InitBatch /\ [][NextBatch]_vars

(***************************************************************************)
(* SpecCombined: the row of lolcode.py's lambda_handler, the variant whose *)
(* one call to the model extracts, scores and writes the note              *)
(* (call_bedrock_extract_and_score), then builds the output record from    *)
(* what came back.                                                         *)
(***************************************************************************)
\* lolcode.py lines 260-315.  The fallback dict carries a score of its own;
\* `final_result.get("score", 0) >= 40` raises on a reply that is not a dict
\* or whose score cannot be compared with 40, inside the try.
call_bedrock_extract_and_score(website_text, response) ==
    LET fallback(sales_note) ==
            [has_warehouse |-> PyBool(FALSE), warehouse_type |-> PyStr("unknown"),
             approx_scale |-> PyStr("unknown"), approx_pallet_capacity |-> None,
             industry |-> PyStr(""), is_public_sector |-> PyBool(FALSE),
             safety_focus |-> PyBool(FALSE), website_confidence |-> PyFloat(100),
             score |-> PyInt(0), segment |-> PyStr(""),
             sales_note |-> PyStr(sales_note)]
        parsed == parse_reply(response)
        score  == DictGet(parsed.v, "score", PyInt(0))
    IN  IF too_short(website_text) THEN fallback("Insufficient website data.")
        ELSE IF ~parsed.ok THEN fallback("Bedrock failed: " \o parsed.exc)
        ELSE IF ~IsDict(parsed.v) THEN fallback("Bedrock failed: AttributeError")
        ELSE CASE score.t = "int" ->
                    Put(parsed.v, "is_interesting", PyBool(score.n >= 40))
               [] score.t = "bool" ->
                    Put(parsed.v, "is_interesting", PyBool(FALSE))
               [] score.t = "float" ->
                    Put(parsed.v, "is_interesting",
                        PyBool(score.k = "inf" \/ (score.k = "fin" /\ score.m >= 40000)))
               [] OTHER -> fallback("Bedrock failed: TypeError")

InitCombined ==
    /\ features = <<>>
    /\ result = NotCalled
    /\ note = NotCalled
    /\ edited = "none"
    /\ ParIdle
    /\ BatchIdle
    /\ text \in ExtractTexts
    /\ extracted = NotCalled
    /\ xpc = "call"
    /\ reply = NotCalled
    /\ invoked = FALSE

\* llm_output = call_bedrock_extract_and_score(name, location, text)
\* (lolcode.py line 364); the model is invoked for a text long enough.
CombinedExtract ==
    /\ xpc = "call"
    /\ \E r \in {ApiError} \cup
                {ModelText(t) : t \in {ScoredJson, Fence \o "json\n" \o ScoredJson \o "\n" \o Fence,
                                        GoodJson, OddJson, "[]", "null", "42",
                                        "Sorry, I cannot help with that."}} :
          /\ reply' = IF too_short(text) THEN NotCalled ELSE r
          /\ invoked' = ~too_short(text)
          /\ extracted' = [kind |-> "return",
                           features |-> call_bedrock_extract_and_score(text, r)]
    /\ xpc' = "unpack"
    /\ UNCHANGED text
    /\ UNCHANGED <<seqvars, parvars, batchvars>>

\* score, segment, sales_note and is_interesting are read from llm_output
\* and the record is built and appended (lolcode.py lines 367-394).
Unpack ==
    /\ xpc = "unpack"
    /\ LET llm_output == extracted.features
       IN  results' = Append(results,
               [features |-> [k \in DOMAIN llm_output \
                                    {"score", "segment", "sales_note", "is_interesting"}
                                |-> llm_output[k]],
                score |-> DictGet(llm_output, "score", PyInt(0)),
                segment |-> DictGet(llm_output, "segment", PyStr("")),
                is_interesting |-> DictGet(llm_output, "is_interesting", PyBool(FALSE)),
                sales_note |-> DictGet(llm_output, "sales_note",
                        PyStr("LLM processing failed or note unavailable."))])
    /\ xpc' = "done"
    /\ UNCHANGED <<text, extracted, reply, invoked>>
    /\ UNCHANGED <<rows, idx, stage, cur, processed, errors, summary>>
    /\ UNCHANGED <<seqvars, parvars>>

NextCombined == CombinedExtract \/ Unpack

SpecCombined == InitCombined /\ [][NextCombined]_vars

(***************************************************************************)
(* SpecId: the identifiers the handler gives to two rows, over names and   *)
(* locations with and without the separator; a short row has None for the  *)
(* columns it lacks.                                                       *)
(***************************************************************************)
InitId ==
    /\ features = <<>>
    /\ result = NotCalled
    /\ note = NotCalled
    /\ edited = "none"
    /\ ParIdle
    /\ PipeIdle
    /\ rows \in [1..2 ->
            {[name |-> PyStr(n), location |-> PyStr(l)] :
                n \in {"Acme", "a", "a|b"}, l \in {"Paris", "c", "b|c", "None"}}
            \cup {[name |-> PyStr(n), city |-> None] : n \in {"Acme", "a", "a|b"}}]
    /\ idx = 1
    /\ stage = "ids"
    /\ cur = NotCalled
    /\ results = <<>>
    /\ processed = 0
    /\ errors = 0
    /\ summary = NotCalled

\* name, location and cid = company_id(name, location) of the next row
\* (lines 335-343).
Identify ==
    /\ stage = "ids"
    /\ idx <= Len(rows)
    /\ results' = Append(results,
            [name |-> row_name(rows[idx]), location |-> row_location(rows[idx]),
             company_id |-> company_id(row_name(rows[idx]), row_location(rows[idx]))])
    /\ idx' = idx + 1
    /\ UNCHANGED <<rows, stage, cur, processed, errors, summary>>
    /\ UNCHANGED <<seqvars, parvars, pipevars>>

SpecId == InitId /\ [][Identify]_vars

(***************************************************************************)
(* The documented deduction schedule (spec 4.1, steps 3-9), per field      *)
(* value; Absent stands for a field the record does not have.              *)
(***************************************************************************)
FieldOf(f, k) == IF k \in DOMAIN f THEN f[k] ELSE Absent

IsStr(v, names) == v.t = "str" /\ LowerStr(v.s) \in names

DocTypeDeduction(v) ==
    CASE IsStr(v, {"freezer"}) -> 0
      [] IsStr(v, {"mixed"})   -> 10
      [] IsStr(v, {"ambient"}) -> 20
      [] OTHER                 -> 30

DocScaleDeduction(v) ==
    CASE IsStr(v, {"medium"}) -> 10
      [] IsStr(v, {"small"})  -> 25
      [] OTHER                -> 0

DocPalletDeduction(v) ==
    CASE v.t = "int" /\ v.n > 30000            -> 0
      [] v.t = "int" /\ v.n \in 7000..30000    -> 5
      [] v.t = "int" /\ v.n \in 1..6999        -> 15
      [] OTHER                                 -> 25

IdealIndustry(v) ==
    \E k \in {"food", "fish", "frozen", "pharma", "logistics", "3pl", "cold chain"} :
        Contains(LowerStr(v.s), k)

OkIndustry(v) ==
    \E k \in {"manufactur", "bouw", "construction", "wholesale", "groothandel"} :
        Contains(LowerStr(v.s), k)

\* ideal 0, else ok 10, else non-empty 40, else (empty or missing) 0
DocIndustryDeduction(v) ==
    CASE v.t # "str" \/ v.s = "" -> 0
      [] IdealIndustry(v)        -> 0
      [] OkIndustry(v)           -> 10
      [] OTHER                   -> 40

DocPublicDeduction(v) == IF v = PyBool(TRUE) THEN 5 ELSE 0

DocSafetyDeduction(v) == IF v = PyBool(TRUE) THEN 0 ELSE 10

DocConfidenceDeduction(v) ==
    IF v.t = "float" /\ v.k = "fin" /\ v.m < 500 THEN 25 ELSE 0

DocDeduction(k, f) ==
    CASE k = "warehouse_type"         -> DocTypeDeduction(FieldOf(f, k))
      [] k = "approx_scale"           -> DocScaleDeduction(FieldOf(f, k))
      [] k = "approx_pallet_capacity" -> DocPalletDeduction(FieldOf(f, k))
      [] k = "industry"               -> DocIndustryDeduction(FieldOf(f, k))
      [] k = "is_public_sector"       -> DocPublicDeduction(FieldOf(f, k))
      [] k = "safety_focus"           -> DocSafetyDeduction(FieldOf(f, k))
      [] k = "website_confidence"     -> DocConfidenceDeduction(FieldOf(f, k))
      [] OTHER                        -> 0

DocTotal(f) ==
    DocDeduction("warehouse_type", f) + DocDeduction("approx_scale", f)
    + DocDeduction("approx_pallet_capacity", f) + DocDeduction("industry", f)
    + DocDeduction("is_public_sector", f) + DocDeduction("safety_focus", f)
    + DocDeduction("website_confidence", f)

(***************************************************************************)
(* Properties.                                                             *)
(***************************************************************************)

\* C1: a record whose has_warehouse is false or missing scores exactly
\* (0, "", false), whatever its other fields hold.
C1_GateReturnsZero ==
    (/\ result.kind # "none"
     /\ FieldOf(features, "has_warehouse") \in {PyBool(FALSE), Absent})
    => result = Returned(0, "", FALSE)

\* The gate answered for a record without has_warehouse whose warehouse_type
\* is a number.
C1_Witness ==
    /\ result = Returned(0, "", FALSE)
    /\ FieldOf(features, "has_warehouse") = Absent
    /\ FieldOf(features, "warehouse_type") = PyInt(5)
    /\ FieldOf(features, "approx_pallet_capacity") = PyInf

\* C2: with has_warehouse true the returned score is
\* max(0, min(100, 100 - D)), D the sum of the seven documented deductions.
C2_ScoreIsHundredMinusDeductions ==
    (result.kind = "return" /\ HasWarehouse(features))
    => result.score = Max(0, Min(100, 100 - DocTotal(features)))

\* Pallet capacity on the inclusive 30000 boundary and an unparseable
\* confidence, neither clamped: 100 - 10 - 5 - 10 = 75.
C2_Witness ==
    /\ result.kind = "return"
    /\ result.score = 75
    /\ HasWarehouse(features)
    /\ FieldOf(features, "warehouse_type") = PyStr("Mixed")
    /\ FieldOf(features, "approx_pallet_capacity") = PyInt(30000)
    /\ FieldOf(features, "website_confidence") = PyStr("n/a")
    /\ FieldOf(features, "safety_focus") = Absent

\* C3: every returned score is an integer in [0,100].
C3_ScoreInRange ==
    result.kind = "return" => result.score \in 0..100

\* Non-numeric pallet capacity, out-of-range confidence and an unexpected
\* warehouse type, with deductions above 100: the score is floored at 0.
C3_Witness ==
    /\ result.kind = "return"
    /\ result.score = 0
    /\ HasWarehouse(features)
    /\ DocTotal(features) > 100
    /\ FieldOf(features, "approx_pallet_capacity") = PyStr("abc")
    /\ FieldOf(features, "website_confidence") = PyFloat(1500)
    /\ FieldOf(features, "warehouse_type") = PyStr("deep freezer")

\* C4: score_lead_deduction never fails: every call returns a result and no
\* error propagates to the caller.
C4_NeverFails == result.kind # "raise"

\* C5: segment is A for score >= 80, B for 60..79, C for 40..59, "" below
\* 40, and is_interesting holds exactly when score >= 40, i.e. exactly when
\* the segment is non-empty.
C5_SegmentByScore ==
    result.kind = "return" =>
        /\ \/ result.score >= 80 /\ result.segment = "A"
           \/ result.score \in 60..79 /\ result.segment = "B"
           \/ result.score \in 40..59 /\ result.segment = "C"
           \/ result.score < 40 /\ result.segment = ""
        /\ result.is_interesting = (result.score >= 40)
        /\ result.is_interesting = (result.segment # "")

\* A score exactly on the 80 boundary, in segment A.
C5_Witness ==
    /\ result.kind = "return"
    /\ result.score = 80
    /\ result.segment = "A"
    /\ result.is_interesting

\* The industry deduction as the claim states it: "unknown" costs nothing.
ClaimedIndustryDeduction(v) ==
    CASE v.t # "str" \/ v.s = ""           -> 0
      [] IdealIndustry(v)                  -> 0
      [] OkIndustry(v)                     -> 10
      [] LowerStr(v.s) = "unknown"         -> 0
      [] OTHER                             -> 40

\* C6: the industry deduction is 0 on an ideal keyword, else 10 on an ok
\* keyword, else 40 for a non-empty industry, and 0 for an industry that is
\* empty or unknown.
C6_IndustryDeduction ==
    (result.kind = "return" /\ HasWarehouse(features))
    => industry_step(features, 100)
        = Ok(100 - ClaimedIndustryDeduction(FieldOf(features, "industry")))

\* f and g hold the same keys and values except at key k.
DifferOnlyIn(f, g, k) ==
    /\ FieldOf(f, k) # FieldOf(g, k)
    /\ \A j \in Fields \ {k} : FieldOf(f, j) = FieldOf(g, j)

\* C7: two records with has_warehouse true that differ in exactly one field
\* have scores that differ by the difference of that field's documented
\* deductions, when neither unclamped total is below 0.
C7_TermsIndependent ==
    [][(/\ result.kind = "return" /\ result'.kind = "return"
        /\ HasWarehouse(features) /\ HasWarehouse(features')
        /\ features' # features
        /\ DocTotal(features) <= 100 /\ DocTotal(features') <= 100)
       => \E k \in Fields :
            /\ DifferOnlyIn(features, features', k)
            /\ result.score - result'.score
                = DocDeduction(k, features') - DocDeduction(k, features)]_vars

\* A record scored after a change of its industry alone, unclamped.
C7_Witness ==
    /\ edited = "industry"
    /\ result.kind = "return"
    /\ HasWarehouse(features)
    /\ FieldOf(features, "industry") = PyStr("consulting")
    /\ result.score = 45

\* C9: neither function mutates the record it is given: the keys present
\* and every value are the same after the call.
C9_RecordUnchanged ==
    [][(result' # result \/ note' # note) =>
        /\ DOMAIN features' = DOMAIN features
        /\ \A k \in DOMAIN features : features'[k] = features[k]]_vars

\* Both functions have returned for a record that lacks most keys.
C9_Witness ==
    /\ result.kind = "return"
    /\ note.kind = "return"
    /\ DOMAIN features = {"has_warehouse", "is_public_sector", "industry"}
    /\ HasWarehouse(features)

\* C8: whenever a call on a record returns, it returns what every other
\* call of that function on that record returned, earlier or at the same
\* time, whatever calls on other records ran in between.
C8_SameRecordSameResult ==
    \A p \in Procs :
        pc[p] = "done" =>
            /\ first[arg[p]][op[p]] \in {NotCalled, ret[p]}
            /\ \A q \in Procs :
                (pc[q] = "done" /\ arg[q] = arg[p] /\ op[q] = op[p]) => ret[q] = ret[p]

\* A repeated scoring of record 1 has returned after the other record was
\* scored too.
C8_Witness ==
    \E p \in Procs :
        /\ pc[p] = "done" /\ op[p] = "score" /\ arg[p] = 1
        /\ first[1]["score"] = ret[p]
        /\ ret[p].kind = "return" /\ ret[p].score = 65
        /\ first[2]["score"] # NotCalled

\* What function o returns for record f when the call runs alone.
RunAlone(o, f) == IF o = "score" THEN score_lead_deduction(f) ELSE make_sales_note(f)

\* C10: under every interleaving of the steps of parallel invocations, each
\* invocation returns what it returns when run alone.
C10_ParallelAsAlone ==
    \A p \in Procs : pc[p] = "done" => ret[p] = RunAlone(op[p], pool[arg[p]])

\* Two invocations on the same record have both finished before either
\* returned, one scoring and one writing the note.
C10_Witness ==
    \E p \in Procs : \E q \in Procs \ {p} :
        /\ pc[p] = "done" /\ pc[q] = "done"
        /\ arg[p] = 1 /\ arg[q] = 1
        /\ op[p] = "score" /\ op[q] = "note"
        /\ ret[p].kind = "return" /\ ret[p].score = 65
        /\ ret[q].kind = "return"

\* The string s ends with the string e.
EndsWith(s, e) == Len(s) >= Len(e) /\ SubSeq(s, Len(s) - Len(e) + 1, Len(s)) = e

FreezerFlag == "[HIGH PRIORITY: freezer]"

\* warehouse_type, compared case-insensitively, contains "freezer".
NamesFreezer(f) ==
    /\ FieldOf(f, "warehouse_type").t = "str"
    /\ Contains(LowerStr(FieldOf(f, "warehouse_type").s), "freezer")

\* C11: the note make_sales_note returns ends with the flag
\* "[HIGH PRIORITY: freezer]" exactly when warehouse_type, compared
\* case-insensitively, contains "freezer"; with any other, empty or missing
\* warehouse_type the note carries no flag.
C11_FreezerFlagIffFreezer ==
    note.kind = "return" =>
        /\ EndsWith(note.note, ", " \o FreezerFlag) <=> NamesFreezer(features)
        /\ Contains(note.note, FreezerFlag) <=> NamesFreezer(features)

\* A note flagged for a type that names the freezer in another case.
C11_Witness ==
    /\ note.kind = "return"
    /\ FieldOf(features, "warehouse_type") = PyStr("Deep FREEZER")
    /\ EndsWith(note.note, ", " \o FreezerFlag)

\* Field k is missing from the record or holds a falsy value.
FalsyOrMissing(f, k) == k \notin DOMAIN f \/ ~Truthy(f[k])

\* C12: in a returned note a falsy or missing warehouse_type is written
\* "unknown", a falsy or missing approx_pallet_capacity "?", and a falsy or
\* missing industry "unknown"; none of them is left out or written empty or
\* as a null.
C12_DefaultTokens ==
    note.kind = "return" =>
        /\ FalsyOrMissing(features, "warehouse_type")
              => Contains(note.note, "unknown warehouse")
        /\ FalsyOrMissing(features, "approx_pallet_capacity")
              => Contains(note.note, "~? pallets")
        /\ FalsyOrMissing(features, "industry")
              => Contains(note.note, "industry: unknown")

\* C13: make_sales_note has no error conditions: every call returns a
\* string, whatever the fields of the record hold.
C13_NoteNeverFails == note.kind # "raise"

\* Some word of the set occurs in the lower-cased text.
Mentions(t, words) == \E w \in words : Contains(LowerStr(t.s), w)

\* C14: every record heuristic_extract returns has all eight Feature Record
\* fields, website_confidence 0.3, warehouse_type one of freezer, ambient,
\* unknown, approx_scale "unknown" and approx_pallet_capacity null.
C14_HeuristicRecordShape ==
    extracted.kind = "return" =>
        /\ DOMAIN extracted.features = Fields
        /\ extracted.features["website_confidence"] = PyFloat(300)
        /\ extracted.features["warehouse_type"]
              \in {PyStr("freezer"), PyStr("ambient"), PyStr("unknown")}
        /\ extracted.features["approx_scale"] = PyStr("unknown")
        /\ extracted.features["approx_pallet_capacity"] = None

\* A record extracted from a text with warehouse, cold-chain, industry,
\* safety vocabulary in it.
C14_Witness ==
    /\ extracted.kind = "return"
    /\ text = PyStr("Warehouse HACCP certified")
    /\ extracted.features["has_warehouse"] = PyBool(TRUE)
    /\ extracted.features["safety_focus"] = PyBool(TRUE)

DocWarehouseTerms ==
    {"warehouse", "distribution center", "dc", "storage facility", "logistics center"}

\* C15: has_warehouse is true exactly when the lower-cased text contains one
\* of "warehouse", "distribution center", "dc", "storage facility",
\* "logistics center" as a substring, and false otherwise.
C15_HasWarehouseIffTerm ==
    extracted.kind = "return" =>
        extracted.features["has_warehouse"] = PyBool(Mentions(text, DocWarehouseTerms))

\* "dc" found inside another word.
C15_Witness ==
    /\ extracted.kind = "return"
    /\ text = PyStr("podcast pharma")
    /\ extracted.features["has_warehouse"] = PyBool(TRUE)

DocColdWords == {"freeze", "refrigerat", "cold storage", "temperature controlled"}
DocAmbientWords == {"ambient", "dry storage"}

\* C16 as stated: warehouse_type is "freezer" when the text contains one of
\* freeze, refrigerat, cold storage, temperature controlled (also next to
\* ambient words); otherwise "ambient" when it contains ambient or dry
\* storage; otherwise "unknown".
C16_TypeByListedWords ==
    extracted.kind = "return" =>
        extracted.features["warehouse_type"] =
            IF Mentions(text, DocColdWords) THEN PyStr("freezer")
            ELSE IF Mentions(text, DocAmbientWords) THEN PyStr("ambient")
            ELSE PyStr("unknown")

AmendedColdWords ==
    {<<"freez">>, <<"cold", "chain">>, <<"refrigerat">>, <<"cold", "storage">>,
     <<"temperature", "controlled">>}
AmendedAmbientWords == {<<"ambient">>, <<"dry", "storage">>}

\* C16 amended: warehouse_type is "freezer" when the lower-cased text
\* contains one of freez, cold chain, refrigerat, cold storage, temperature
\* controlled, the two words of a term separated by any run of whitespace
\* (also next to ambient words); otherwise "ambient" when it contains
\* ambient or dry storage; otherwise "unknown".
C16_TypeByPattern ==
    extracted.kind = "return" =>
        extracted.features["warehouse_type"] =
            IF Search(AmendedColdWords, LowerStr(text.s)) THEN PyStr("freezer")
            ELSE IF Search(AmendedAmbientWords, LowerStr(text.s)) THEN PyStr("ambient")
            ELSE PyStr("unknown")

\* Cold-chain and ambient vocabulary in one text.
C16_Witness ==
    /\ extracted.kind = "return"
    /\ text = PyStr("Ambient refrigerated")
    /\ extracted.features["warehouse_type"] = PyStr("freezer")

\* C17: heuristic_extract returns a record for every text string and never
\* raises; for the empty string the record is the all-defaults one.
C17_HeuristicTotal ==
    extracted # NotCalled =>
        /\ extracted.kind = "return"
        /\ text = PyStr("") =>
              /\ extracted.features["has_warehouse"] = PyBool(FALSE)
              /\ extracted.features["warehouse_type"] = PyStr("unknown")
              /\ extracted.features["industry"] = PyStr("")
              /\ extracted.features["is_public_sector"] = PyBool(FALSE)
              /\ extracted.features["safety_focus"] = PyBool(FALSE)

\* The empty text, extracted.
C17_Witness ==
    /\ text = PyStr("")
    /\ extracted.kind = "return"

\* C18: a text of fewer than 50 characters is answered with
\* heuristic_extract of that text without the model being invoked; a text of
\* 50 characters or more invokes the model; when the invocation or the
\* parsing of its reply raises, the answer is heuristic_extract of that text;
\* the call never raises.
C18_FallbackOnShortOrFailure ==
    xpc = "done" =>
        /\ extracted.kind = "return"
        /\ invoked <=> Len(text.s) >= 50
        /\ Len(text.s) < 50 => extracted = Extracted(heuristic_extract(text))
        /\ (invoked /\ ~parse_reply(reply).ok)
              => extracted = Extracted(heuristic_extract(text))

\* A text of exactly 50 characters whose reply could not be parsed.
C18_Witness ==
    /\ xpc = "done"
    /\ Len(text.s) = 50
    /\ invoked
    /\ reply = ModelText("Sorry, I cannot help with that.")
    /\ extracted.kind = "return"
    /\ extracted.features["has_warehouse"] = PyBool(TRUE)
    /\ extracted.features["website_confidence"] = PyFloat(300)

\* The model's reply is malformed: its text is not JSON, or is JSON for
\* something other than a mapping.
Malformed(r) ==
    /\ r.kind = "text"
    /\ ~parse_reply(r).ok \/ ~IsDict(parse_reply(r).v)

\* C19: when the model's response is malformed (not JSON, or JSON that is
\* not a Feature-Record mapping) the features handed to scoring for that row
\* are the heuristic ones of the row's text, and the row is not lost to an
\* error.
C19_MalformedFallsBack ==
    /\ (stage = "score" /\ Malformed(cur.reply))
          => cur.features = heuristic_extract(cur.text).v
    /\ (stage = "score" /\ Malformed(cur.reply))
          => ScoreOf(cur.features).kind = "return"

AcmeRow == [name |-> PyStr("Acme"), location |-> PyStr("Paris"),
            website |-> PyStr("https://acme.example")]
BetaRow == [company |-> PyStr("Beta"), city |-> PyStr("Oslo"), website |-> PyStr("")]

\* C20: a row whose handling fails is counted in errors and nothing else
\* changes: the collected records and the processed count are kept and the
\* loop goes on with the next row; records once collected stay collected;
\* and a run whose input could be read ends only with the summary response
\* carrying the processed and error counts, after every row was taken or
\* the limit was reached.
C20_RowFailureIsolated ==
    [][/\ errors' # errors
            => /\ errors' = errors + 1
               /\ results' = results /\ processed' = processed
               /\ stage' = "loop" /\ idx' = idx /\ rows' = rows
       /\ Len(results') >= Len(results)
       /\ \A i \in DOMAIN results : results'[i] = results[i]
       /\ stage' = "done" /\ stage # "open"
            => /\ summary'.statusCode = 200
               /\ summary'.processed = processed' /\ summary'.errors = errors'
               /\ idx' > Len(rows') \/ processed' >= MAX_COMPANIES]_vars

\* C21: a row without a website, or whose fetch failed, has the empty text;
\* its features are heuristic_extract of the empty text, it is scored 0 with
\* segment "" and not interesting, and it is collected and counted as
\* processed, never as an error.
C21_NoPageIsNotAnError ==
    [][/\ stage = "fetch" /\ (~Truthy(cur.website) \/ cur'.fetched = "fetch_error")
            => cur'.text = PyStr("") /\ stage' = "extract"
       /\ stage = "extract" /\ cur.fetched # "page"
            => /\ stage' = "score" /\ errors' = errors
               /\ cur'.features = heuristic_extract(PyStr("")).v
               /\ cur'.features.has_warehouse = PyBool(FALSE)
       /\ stage = "score" /\ cur.fetched # "page"
            => /\ stage' = "note" /\ errors' = errors
               /\ cur'.scored = Returned(0, "", FALSE)
       /\ stage = "note" /\ cur.fetched # "page"
            => /\ errors' = errors /\ processed' = processed + 1
               /\ Len(results') = Len(results) + 1
               /\ results'[Len(results')].features = heuristic_extract(PyStr("")).v
               /\ results'[Len(results')].score = 0
               /\ results'[Len(results')].segment = ""
               /\ results'[Len(results')].is_interesting = FALSE]_vars

\* Beta has no website and the fetch of Acme's failed: both were collected
\* with the features of the empty text, and no error was counted.
C21_Witness ==
    /\ stage = "done"
    /\ rows = <<BetaRow, AcmeRow>>
    /\ errors = 0 /\ processed = 2
    /\ \A i \in 1..2 : results[i].features = heuristic_extract(PyStr("")).v
    /\ results[1].website = None /\ results[2].name = PyStr("Acme")

\* C26: when the input cannot be read the run ends with the error response
\* (status 500 and the error text); and the error response is given only
\* then, never on account of one row of an input that was read.
C26_FatalOnlyForSetup ==
    [][/\ stage = "open" /\ stage' = "done"
            => summary'.statusCode = 500 /\ summary'.error = "NoSuchKey"
       /\ stage' = "done" /\ summary'.statusCode = 500 => stage = "open"]_vars

\* The rows of this run that were fetched: those collected, those that
\* failed after the fetch, and the one in hand.
RowsPutThrough ==
    processed + errors + (IF stage \in {"fetch", "extract", "score", "note"} THEN 1 ELSE 0)

\* C22: in one run no more than MAX_COMPANIES rows are put through the
\* per-row pipeline (fetch, extract, score), whether they succeed or fail.
C22_AtMostMaxRowsHandled == RowsPutThrough <= MAX_COMPANIES

\* C23: a row without a name under any alias is skipped (no record, the
\* loop goes on with the next row) and is counted: it adds one to the counts
\* the run reports.
C23_SkippedRowCounted ==
    [][stage = "names" /\ ~Truthy(row_name(cur.row))
            => /\ stage' = "loop" /\ results' = results /\ idx' = idx
               /\ processed' + errors' = processed + errors + 1]_vars

\* The rows the loop body has finished with: all those taken from the
\* reader, but for the one in hand.
RowsFinished == IF stage \in {"open", "loop", "summary", "done"} THEN idx - 1 ELSE idx - 2

\* Those of the first n rows that have no name under any alias.
Nameless(n) == {i \in 1..n : ~Truthy(row_name(rows[i]))}

\* C30: in every state of the batch loop there are as many collected
\* records as the processed counter says, and at most MAX_COMPANIES; the
\* records are those of distinct input rows, in the order of the input; and
\* every row the loop has finished with has added one to exactly one of
\* processed and errors, but for the rows without a name, which added to
\* neither.
C30_LoopAccounting ==
    /\ Len(results) = processed
    /\ processed <= MAX_COMPANIES
    /\ \E f \in [1..Len(results) -> 1..RowsFinished] :
          /\ \A i, j \in 1..Len(results) : i < j => f[i] < f[j]
          /\ \A i \in 1..Len(results) :
                /\ results[i].name = row_name(rows[f[i]])
                /\ results[i].location = row_location(rows[f[i]])
                /\ results[i].website = row_website(rows[f[i]])
    /\ processed + errors + Cardinality(Nameless(RowsFinished)) = RowsFinished

\* A run of three rows: one without a name, one that failed, one collected.
C30_Witness ==
    /\ stage = "done" /\ summary.statusCode = 200
    /\ Len(rows) = 3 /\ idx = 4
    /\ Nameless(3) = {1}
    /\ errors = 1 /\ processed = 1 /\ Len(results) = 1
    /\ results[1].name = row_name(rows[3])

\* C27: a record heuristic_extract produced scores at most 50 and is never
\* in segment A or B; when its has_warehouse is true the score is between 5
\* and 50.
C27_HeuristicLeadsAtMost50 ==
    result # NotCalled
        => /\ result.kind = "return"
           /\ features = heuristic_extract(text).v
           /\ result.score <= 50
           /\ result.segment \notin {"A", "B"}
           /\ features.has_warehouse = PyBool(TRUE)
                => 5 <= result.score /\ result.score <= 50

\* A refrigerated warehouse with a certificate: the best a heuristic record
\* can score.
C27_Witness ==
    /\ result # NotCalled
    /\ features = heuristic_extract(text).v
    /\ features.has_warehouse = PyBool(TRUE)
    /\ features.warehouse_type = PyStr("freezer")
    /\ result = Returned(50, "C", TRUE)

\* C28: every score score_lead_deduction returns is a multiple of 5, so 79,
\* 59 and 39 are never returned.
C28_ScoreMultipleOfFive ==
    result.kind = "return" => result.score % 5 = 0 /\ result.score \notin {79, 59, 39}

\* A public-sector lead just below segment A: the 5 of the public-sector
\* deduction is the only step that is not a multiple of 10 here.
C28_Witness ==
    /\ result = Returned(75, "B", TRUE)
    /\ FieldOf(features, "is_public_sector") = PyBool(TRUE)

\* C29: a record whose note carries the freezer flag, when it is scored as a
\* warehouse, gets the zero deduction of the freezer type.
C29_FlagAgreesWithScoring ==
    /\ note.kind = "return" /\ Contains(note.note, FreezerFlag)
    /\ result.kind = "return" /\ ~Gate(features)
    => wtype_step(features, 100) = Ok(100)

\* C25: two rows get the same company_id exactly when they have the same
\* name and the same location.
C25_SameIdIffSamePair ==
    \A i, j \in DOMAIN results :
        results[i].company_id = results[j].company_id
            <=> /\ results[i].name = results[j].name
                /\ results[i].location = results[j].location

\* C24: in every variant of the handler the score, segment and
\* is_interesting of an output record are what score_lead_deduction returns
\* for the record's features, and its note is make_sales_note of them.
C24_ScoredLocally ==
    \A i \in DOMAIN results :
        /\ score_lead_deduction(results[i].features).kind = "return"
        /\ results[i].score = PyInt(score_lead_deduction(results[i].features).score)
        /\ results[i].segment = PyStr(score_lead_deduction(results[i].features).segment)
        /\ results[i].is_interesting =
                PyBool(score_lead_deduction(results[i].features).is_interesting)
        /\ make_sales_note(results[i].features).kind = "return"
        /\ results[i].sales_note = PyStr(make_sales_note(results[i].features).note)

====
